---- MODULE Spec2Model ----
(***************************************************************************)
(* Live stream ingestion and event capture engine of Accident-Detector:    *)
(* CameraStream (one capture thread per start(), confirmation logic,       *)
(* evidence recording) and CameraManager (the registry of streams), from   *)
(* BACKEND/services/camera_service.py.                                     *)
(*                                                                         *)
(* The specifications share the same actions:                              *)
(*   Spec          the CameraManager called by concurrent request threads   *)
(*                 (Flask/Socket.IO run with async_mode='threading'); the   *)
(*                 frame pipeline of every stream is projected away (the    *)
(*                 control flow of _capture_loop never reads it);           *)
(*   SpecSerial    as Spec with a single request thread, so that registry   *)
(*                 calls come one after another ("in succession"), the      *)
(*                 capture threads still interleaving freely; it keeps      *)
(*                 the last two returned calls in hist;                     *)
(*   SpecStream    one CameraStream driven directly through start() and     *)
(*                 stop(), frame pipeline projected away;                   *)
(*   SpecPipeline  one CameraStream started once, with the whole frame      *)
(*                 pipeline (detection, confirmation, recording, and the    *)
(*                 faults of each) and a clock;                             *)
(*   SpecRecording one CameraStream started once and never stopped, with    *)
(*                 the whole frame pipeline and reads that raise;           *)
(*   SpecPair      two CameraStreams running side by side with the whole    *)
(*                 frame pipeline, the clock standing still;                *)
(*   SpecDetector  the same two streams with get_detector and the detector  *)
(*                 call taken statement by statement;                       *)
(*   SpecPublish   one CameraStream started once and never stopped, with    *)
(*                 the pipeline, the publishing of frames and the clock;    *)
(*   SpecPlain     the same for a stream constructed with use_yolo=False;   *)
(*   SpecStats     one CameraStream with _verify_detection in two steps.    *)
(* SpecStreamFair and SpecRecordingFair add weak fairness of every capture  *)
(* thread to SpecStream and SpecRecording, for the liveness properties;     *)
(* SpecPipelineFair adds to SpecPipeline a source that keeps delivering.    *)
(***************************************************************************)
EXTENDS Integers, Sequences, FiniteSets, TLC

\* ---------------------------------------------------------------- bounds
NumCameras == 1          \* camera ids a request may name
MaxSessions == 2         \* CameraStream objects constructed in one behaviour
MaxOpenFailures == 2     \* failed opens counted by one capture thread
MaxFrames == 5           \* frames read successfully by one stream
MaxTime == 3             \* clock ticks after the process started
MaxStarts == 2           \* direct start() calls on one stream (SpecStream)
MaxDetectorFaults == 1   \* detector invocations of one stream that fault
MaxPairFrames == 4       \* frames read by each of two streams (SpecPair)
\* The stream's tunables, scaled down (camera_service.py:49 sets 120 frames,
\* :51 sets 60 seconds, :59 a buffer of 375 frames, :238 a post-roll of 375).
RequiredConsecutive == 2
CooldownSeconds == 2
\* emit_interval (camera_service.py:42 sets 0.033 s), scaled to the clock's tick.
EmitInterval == 1
BufferCapacity == 2
PostRollFrames == 3

\* _capture_loop's local max_reconnect_attempts (camera_service.py:102 sets
\* 10), scaled down. The loop reads it only to format the log line 122.
max_reconnect_attempts == 2

\* Config.FRAME_SKIP (config.py:36): the cadence the repository's other frame
\* loops sample at (frame_number % Config.FRAME_SKIP == 0, detector.py:198,
\* video_service.py:79).
FRAME_SKIP == 2

\* time.time() at process start: far more than the cooldown after the epoch.
StartTime == CooldownSeconds + 1

CameraIds == 1..NumCameras
Sessions == 1..MaxSessions
Threads == 1..(MaxSessions + MaxStarts)
Callers == {1, 2}

VARIABLES
    obj,             \* CameraStream objects: camera_id, is_running, cap, use_yolo
    det,             \* CameraStream objects: counters, buffer, recording state
    thr,             \* capture threads: the stream each runs on, its position
    active_streams,  \* CameraManager.active_streams: camera id -> stream (0: absent)
    call,            \* request threads inside a CameraManager / CameraStream call
    now,             \* time.time()
    hist,            \* SpecSerial: the last two calls that returned, oldest first
    detector_instance  \* the module's _detector_instance: 0 for None, else
                       \* n for the n-th SevereAccidentDetector constructed

vars == <<obj, det, thr, active_streams, call, now, hist, detector_instance>>

\* ------------------------------------------------------ CameraStream state
\* camera_id = 0: the object is not constructed yet.
NoStream == [camera_id |-> 0, is_running |-> FALSE, cap |-> "None", use_yolo |-> FALSE]

\* CameraStream.__init__: the control fields of a new stream.
NewStream(id, yolo) ==
    [camera_id |-> id, is_running |-> FALSE, cap |-> "None", use_yolo |-> yolo]

\* No 'camera_frame' event has reached socketio.emit successfully yet.
NoFrameMsg == [is_recording |-> FALSE, timestamp |-> 0, frame_count |-> 0]

\* CameraStream.__init__: counters, buffer and recording state of a new
\* stream, with what the stream has done so far (the observable history the
\* properties speak about): the signals its detector delivered, the frames
\* inserted into its buffer, the detector invocations that faulted, its
\* confirmations (frame, time, which signal it was, the buffer) and the clips
\* it wrote (the recording's start time, the frames, and whether the
\* accident reached the database). detector is self.detector: 0 for None,
\* else the detector instance the stream holds; tentative_emitted counts the
\* 'tentative_detection' events handed to socketio.emit; frame_msg is the last
\* 'camera_frame' event socketio.emit accepted.
NewDetail ==
    [frame_count |-> 0,
     consecutive_detections |-> 0,
     total_detections |-> 0,
     tentative_emitted |-> 0,
     last_emit_time |-> 0,
     frame_msg |-> NoFrameMsg,
     confirmed_accidents |-> 0,
     last_confirmed_time |-> 0,
     frame_buffer |-> <<>>,
     is_recording |-> FALSE,
     frames_to_record_after |-> 0,
     recording_frames |-> <<>>,
     recording_start_time |-> 0,
     signals |-> <<>>,
     inserted |-> <<>>,
     detector |-> 0,
     detector_faults |-> 0,
     first_frame_time |-> 0,
     confirmations |-> <<>>,
     clips |-> <<>>]

\* CameraManager.__init__ as app.py constructs it: use_yolo=True.
manager_use_yolo == TRUE

NoThread == [sess |-> 0, pc |-> "unborn", reconnect_attempts |-> 0]
\* A request thread: the call it is in (op, its argument id or stream, its
\* position pc), the call's result ret and the line it logged, stop_all's
\* list todo, and whether the stream was running when stop() was entered.
IdleCall == [pc |-> "idle", op |-> "none", id |-> 0, stream |-> 0,
             ret |-> "none", log |-> "none", todo |-> {}, was_running |-> FALSE]

\* The next object / thread to be allocated (0: the bound is used up).
FreeSession == IF \E s \in Sessions : obj[s].camera_id = 0
               THEN CHOOSE s \in Sessions : obj[s].camera_id = 0
                        /\ \A r \in Sessions : obj[r].camera_id = 0 => s <= r
               ELSE 0
FreeThread == IF \E t \in Threads : thr[t].sess = 0
              THEN CHOOSE t \in Threads : thr[t].sess = 0
                       /\ \A r \in Threads : thr[r].sess = 0 => t <= r
              ELSE 0

\* A capture thread that has been spawned and has not left _capture_loop.
Live(t) == thr[t].sess # 0 /\ thr[t].pc # "done"
LiveLoops(id) == {t \in Threads : Live(t) /\ obj[thr[t].sess].camera_id = id}

\* ------------------------------------------------------ the frame pipeline
\* (mutant) the buffer grows without evicting.
RingAppendUnbounded(buf, f) == Append(buf, f)

\* deque(maxlen=...).append: the oldest frame is evicted once the buffer is full.
RingAppend(buf, f) ==
    IF Len(buf) < BufferCapacity THEN Append(buf, f) ELSE Append(Tail(buf), f)

\* (mutant) a recording in flight is restarted.
StartRecordingAlways(d, t) ==
    [d EXCEPT !.is_recording = TRUE,
              !.frames_to_record_after = PostRollFrames,
              !.recording_frames = <<>>,
              !.recording_start_time = t]

\* _start_recording: nothing changes while a recording is in flight.
StartRecording(d, t) ==
    IF ~d.is_recording
    THEN [d EXCEPT !.is_recording = TRUE,
                   !.frames_to_record_after = PostRollFrames,
                   !.recording_frames = <<>>,
                   !.recording_start_time = t]
    ELSE d

\* What can happen to a clip in _save_recording: it is written and the
\* accident saved in the database; it is written and _save_to_database
\* fails (caught there, lines 315-318); or it is not written (the
\* VideoWriter does not open, line 269, or a call raises, lines 297-300).
SaveOutcomes == {"saved", "db_failed", "aborted"}

\* _save_recording: is_recording is cleared first; the clip is the buffer
\* as it is now followed by the post-roll frames (line 258); line 295
\* (recording_frames = []) is reached only when the clip was written.
SaveRecording(d, save) ==
    IF save = "aborted"
    THEN [d EXCEPT !.is_recording = FALSE]
    ELSE [d EXCEPT !.is_recording = FALSE,
                   !.clips = Append(@, [start |-> d.recording_start_time,
                                        frames |-> d.frame_buffer \o d.recording_frames,
                                        persisted |-> (save = "saved")]),
                   !.recording_frames = <<>>]

\* (mutant) the count test is dropped.
ConfirmBelowThreshold(d, t) ==
    t - d.last_confirmed_time >= CooldownSeconds

\* (mutant) the cooldown test is dropped.
ConfirmWithoutCooldown(d, t) ==
    d.consecutive_detections >= RequiredConsecutive

\* The test of _verify_detection, line 219.
ConfirmCondition(d, t) ==
    /\ d.consecutive_detections >= RequiredConsecutive
    /\ t - d.last_confirmed_time >= CooldownSeconds

\* (mutant) a confirmation does not update last_confirmed_time.
VerifyWithoutStamp(d, t, f) ==
    LET d1 == [d EXCEPT !.consecutive_detections = @ + 1,
                        !.total_detections = @ + 1,
                        !.tentative_emitted = @ + 1]
    IN  IF ConfirmCondition(d1, t)
        THEN StartRecording(
                 [d1 EXCEPT !.confirmed_accidents = @ + 1,
                            !.consecutive_detections = 0,
                            !.confirmations = Append(@, [frame |-> f, time |-> t,
                                                         signal |-> Len(d.signals),
                                                         buffer |-> d.frame_buffer])],
                 t)
        ELSE d1

\* (mutant) inside the cooldown a positive signal is ignored.
VerifySilentInCooldown(d, t, f) ==
    LET d1 == [d EXCEPT !.consecutive_detections = @ + 1,
                        !.total_detections = @ + 1,
                        !.tentative_emitted = @ + 1]
    IN  IF t - d.last_confirmed_time < CooldownSeconds THEN d
        ELSE IF ConfirmCondition(d1, t)
        THEN StartRecording(
                 [d1 EXCEPT !.confirmed_accidents = @ + 1,
                            !.last_confirmed_time = t,
                            !.consecutive_detections = 0,
                            !.confirmations = Append(@, [frame |-> f, time |-> t,
                                                         signal |-> Len(d.signals),
                                                         buffer |-> d.frame_buffer])],
                 t)
        ELSE d1

\* _verify_detection for frame f, with current_time = t.
VerifyDetection(d, t, f) ==
    LET d1 == [d EXCEPT !.consecutive_detections = @ + 1,
                        !.total_detections = @ + 1,
                        !.tentative_emitted = @ + 1]
    IN  IF ConfirmCondition(d1, t)
        THEN StartRecording(
                 [d1 EXCEPT !.confirmed_accidents = @ + 1,
                            !.last_confirmed_time = t,
                            !.consecutive_detections = 0,
                            !.confirmations = Append(@, [frame |-> f, time |-> t,
                                                         signal |-> Len(d.signals),
                                                         buffer |-> d.frame_buffer])],
                 t)
        ELSE d1

\* (mutant) a negative signal takes one off the count.
NegativeDecrements(d) ==
    [d EXCEPT !.consecutive_detections = IF @ > 0 THEN @ - 1 ELSE 0]

\* (mutant) a negative signal keeps the count.
NegativeKeepsCount(d) == d

\* The else branch of line 151: a negative signal.
NegativeSignal(d) == [d EXCEPT !.consecutive_detections = 0]

\* (mutant) a positive frame does not use up the post-roll.
RecordFrameSparesPositives(d, f, save) ==
    IF d.is_recording
    THEN LET r == [d EXCEPT !.recording_frames = Append(@, f),
                            !.frames_to_record_after =
                                IF d.consecutive_detections > 0 THEN @ ELSE @ - 1]
         IN  IF r.frames_to_record_after <= 0 THEN SaveRecording(r, save) ELSE r
    ELSE d

\* Lines 161-168: the frame joins the recording in flight, which is saved
\* when the post-roll counter runs out.
RecordFrame(d, f, save) ==
    IF d.is_recording
    THEN LET r == [d EXCEPT !.recording_frames = Append(@, f),
                            !.frames_to_record_after = @ - 1]
         IN  IF r.frames_to_record_after <= 0 THEN SaveRecording(r, save) ELSE r
    ELSE d

\* What the socketio.emit calls of one iteration can do: go through, or raise
\* (caught at lines 215, 349, 372).
EmitOutcomes == {"delivered", "failed"}

\* (mutant) every frame is published.
EmitFrameUngated(d, t, emit) ==
    [d EXCEPT !.last_emit_time = t,
              !.frame_msg =
                  IF emit = "delivered"
                  THEN [is_recording |-> d.consecutive_detections > 0 \/ d.is_recording,
                        timestamp |-> t,
                        frame_count |-> d.frame_count]
                  ELSE @]

\* (mutant) an emit that fails takes the running count with it.
EmitFrameFailureLosesCount(d, t, emit) ==
    IF t - d.last_emit_time >= EmitInterval
    THEN [d EXCEPT !.last_emit_time = t,
                   !.consecutive_detections = IF emit = "failed" THEN 0 ELSE @,
                   !.frame_msg =
                       IF emit = "delivered"
                       THEN [is_recording |-> d.consecutive_detections > 0 \/ d.is_recording,
                             timestamp |-> t,
                             frame_count |-> d.frame_count]
                       ELSE @]
    ELSE d

\* Lines 170-174 and _emit_frame: the publish is due when emit_interval has
\* passed since last_emit_time, which is set whether or not the emit goes
\* through; the event carries the flag of line 341.
EmitFrame(d, t, emit) ==
    IF t - d.last_emit_time >= EmitInterval
    THEN [d EXCEPT !.last_emit_time = t,
                   !.frame_msg =
                       IF emit = "delivered"
                       THEN [is_recording |-> d.consecutive_detections > 0 \/ d.is_recording,
                             timestamp |-> t,
                             frame_count |-> d.frame_count]
                       ELSE @]
    ELSE d

\* What a detector invocation can do: find an accident, find none, or fault.
DetectorOutcomes == {"positive", "negative", "fault"}

\* detect_severe (detector.py:85-139): tiene_severe; an exception is caught
\* there and (False, 0.0, frame, None) returned.
DetectSevere(outcome) == outcome = "positive"

\* (mutant) the detector is used whatever use_yolo says.
ProcessFrameAlwaysDetects(d, yolo, sig, t, save) ==
    LET f  == d.frame_count + 1
        d0 == [d EXCEPT !.frame_count = f,
                        !.frame_buffer = RingAppend(@, f),
                        !.inserted = Append(@, f),
                        !.signals = Append(@, sig),
                        !.first_frame_time = IF f = 1 THEN t ELSE @]
        d1 == IF sig THEN VerifyDetection(d0, t, f) ELSE NegativeSignal(d0)
    IN  RecordFrame(d1, f, save)

\* One iteration of the inner loop on a frame read successfully (lines
\* 137-168): count, detect, buffer, verify or reset, record.
ProcessFrame(d, yolo, sig, t, save) ==
    LET f  == d.frame_count + 1
        d0 == [d EXCEPT !.frame_count = f,
                        !.frame_buffer = RingAppend(@, f),
                        !.inserted = Append(@, f),
                        !.signals = IF yolo THEN Append(@, sig) ELSE @,
                        !.first_frame_time = IF f = 1 THEN t ELSE @]
        d1 == IF yolo
              THEN IF sig THEN VerifyDetection(d0, t, f) ELSE NegativeSignal(d0)
              ELSE d0
    IN  RecordFrame(d1, f, save)

\* ------------------------------------------------------ _capture_loop
\* (mutant) every capture thread works on the same stream object.
SessShared(t) == 1

\* The stream a capture thread runs on (self).
Sess(t) == thr[t].sess
Goto(t, pc) == thr' = [thr EXCEPT ![t].pc = pc]

\* line 114: while self.is_running
LoopTop(t) ==
    /\ thr[t].pc = "loop_top"
    /\ IF obj[Sess(t)].is_running
       THEN Goto(t, "connect")
       ELSE thr' = [thr EXCEPT ![t].pc = "done", ![t].reconnect_attempts = 0]
    /\ UNCHANGED <<obj, det, active_streams, call, now, hist, detector_instance>>

\* line 117: self.cap = cv2.VideoCapture(...), which opens or does not.
Connect(t) ==
    /\ thr[t].pc = "connect"
    /\ \E ok \in BOOLEAN :
          /\ ok \/ \A u \in Threads : thr[u].sess = Sess(t)
                       => thr[u].reconnect_attempts < MaxOpenFailures
          /\ obj' = [obj EXCEPT ![Sess(t)].cap = IF ok THEN "open" ELSE "closed"]
    /\ Goto(t, "opened")
    /\ UNCHANGED <<det, active_streams, call, now, hist, detector_instance>>

\* lines 118-127: self.cap.set (an AttributeError when stop() has set
\* self.cap to None), then the isOpened test; `continue` runs the finally.
\* (mutant) a successful open keeps the count of failed attempts.
AttemptsNeverReset(n, cap) == IF cap = "closed" THEN n + 1 ELSE n

\* reconnect_attempts after lines 118-127: one more for a capture that is not
\* opened (line 121), zero for one that is (line 127).
AttemptsAfterOpen(n, cap) ==
    CASE cap = "open" -> 0
      [] cap = "closed" -> n + 1
      [] OTHER -> n

Opened(t) ==
    /\ thr[t].pc = "opened"
    /\ thr' = [thr EXCEPT
          ![t].pc = IF obj[Sess(t)].cap = "open" THEN "inner_top" ELSE "fin_check",
          ![t].reconnect_attempts = AttemptsAfterOpen(@, obj[Sess(t)].cap)]
    /\ UNCHANGED <<obj, det, active_streams, call, now, hist, detector_instance>>

\* line 129: while self.is_running and self.cap.isOpened()
InnerTop(t) ==
    /\ thr[t].pc = "inner_top"
    /\ Goto(t, IF obj[Sess(t)].is_running /\ obj[Sess(t)].cap = "open"
               THEN "read" ELSE "fin_check")
    /\ UNCHANGED <<obj, det, active_streams, call, now, hist, detector_instance>>

\* (mutant) a failed read resets the running count, as a negative signal does.
ReadFailResetsCount(t) ==
    /\ thr[t].pc = "read"
    /\ Goto(t, IF obj[Sess(t)].cap = "None" THEN "fin_check" ELSE "inner_top")
    /\ det' = [det EXCEPT ![Sess(t)].consecutive_detections = 0]
    /\ UNCHANGED <<obj, active_streams, call, now, hist, detector_instance>>

\* lines 130-135: a read that fails (or a capture released meanwhile); with
\* self.cap = None the call raises and the finally runs.
ReadFail(t) ==
    /\ thr[t].pc = "read"
    /\ Goto(t, IF obj[Sess(t)].cap = "None" THEN "fin_check" ELSE "inner_top")
    /\ UNCHANGED <<obj, det, active_streams, call, now, hist, detector_instance>>

\* get_detector() run without interruption (lines 19-23): the module's
\* instance, constructed first when there is none.
GetDetector(inst) == IF inst = 0 THEN inst + 1 ELSE inst

\* lines 130-177: a frame is read and processed. With use_yolo the stream
\* has its detector from get_detector (lines 141-142), which leaves the
\* module's instance loaded; a fault inside detect_severe comes back as a
\* negative signal. emits are the outcomes the socketio.emit calls of the
\* iteration may have; with {"projected"} the publish of lines 170-174 is
\* projected away (nothing else in the class reads last_emit_time).
ReadOkWith(t, emits) ==
    /\ thr[t].pc = "read"
    /\ obj[Sess(t)].cap = "open"
    /\ det[Sess(t)].frame_count < MaxFrames
    /\ \E outcome \in DetectorOutcomes, save \in SaveOutcomes, emit \in emits :
          /\ outcome = "fault" =>
                /\ obj[Sess(t)].use_yolo
                /\ det[Sess(t)].detector_faults < MaxDetectorFaults
          /\ LET p == ProcessFrame(
                          [det[Sess(t)] EXCEPT
                              !.detector_faults =
                                  IF outcome = "fault" THEN @ + 1 ELSE @,
                              !.detector =
                                  IF obj[Sess(t)].use_yolo /\ @ = 0
                                  THEN GetDetector(detector_instance) ELSE @],
                          obj[Sess(t)].use_yolo, DetectSevere(outcome), now, save)
             IN  det' = [det EXCEPT ![Sess(t)] =
                            IF emit = "projected" THEN p ELSE EmitFrame(p, now, emit)]
    /\ detector_instance' =
          IF obj[Sess(t)].use_yolo /\ det[Sess(t)].detector = 0
          THEN GetDetector(detector_instance) ELSE detector_instance
    /\ Goto(t, "inner_top")
    /\ UNCHANGED <<obj, active_streams, call, now, hist>>

\* The frame step for a positive signal in two steps, as a thread that reads
\* the stream's counters meanwhile (get_camera_stats, called by a request
\* thread) can find it. First lines 130-197: the frame is counted, detected
\* and buffered, and _verify_detection has run consecutive_detections += 1.
VerifyBegin(t) ==
    /\ thr[t].pc = "read"
    /\ obj[Sess(t)].cap = "open"
    /\ obj[Sess(t)].use_yolo
    /\ det[Sess(t)].frame_count < MaxFrames
    /\ det' = [det EXCEPT ![Sess(t)] =
          [@ EXCEPT !.frame_count = @ + 1,
                    !.frame_buffer = RingAppend(@, det[Sess(t)].frame_count + 1),
                    !.inserted = Append(@, det[Sess(t)].frame_count + 1),
                    !.signals = Append(@, TRUE),
                    !.first_frame_time = IF det[Sess(t)].frame_count = 0 THEN now ELSE @,
                    !.detector = IF @ = 0 THEN GetDetector(detector_instance) ELSE @,
                    !.consecutive_detections = @ + 1]]
    /\ detector_instance' =
          IF det[Sess(t)].detector = 0
          THEN GetDetector(detector_instance) ELSE detector_instance
    /\ Goto(t, "verify")
    /\ UNCHANGED <<obj, active_streams, call, now, hist>>

\* Then lines 198-177: the rest of _verify_detection (VerifyDetection but for
\* the increment already made) and of the iteration, the publish projected
\* away.
VerifyEnd(t) ==
    /\ thr[t].pc = "verify"
    /\ \E save \in SaveOutcomes :
          det' = [det EXCEPT ![Sess(t)] =
              RecordFrame(
                  VerifyDetection([@ EXCEPT !.consecutive_detections = @ - 1],
                                  now, det[Sess(t)].frame_count),
                  det[Sess(t)].frame_count, save)]
    /\ Goto(t, "inner_top")
    /\ UNCHANGED <<obj, active_streams, call, now, hist, detector_instance>>

\* The frame step with the publish projected away, and with it.
ReadOk(t) == ReadOkWith(t, {"projected"})
ReadOkPublish(t) == ReadOkWith(t, EmitOutcomes)

\* lines 130-142 and 179-184: the frame is read and counted, and get_detector
\* raises (the detector cannot be constructed, lines 21-22): the exception
\* leaves the inner loop for the handler of line 179 and the finally.
ReadDetectorFault(t) ==
    /\ thr[t].pc = "read"
    /\ obj[Sess(t)].cap = "open"
    /\ obj[Sess(t)].use_yolo
    /\ detector_instance = 0
    /\ det[Sess(t)].frame_count < MaxFrames
    /\ det[Sess(t)].detector_faults < MaxDetectorFaults
    /\ det' = [det EXCEPT ![Sess(t)].frame_count = @ + 1,
                          ![Sess(t)].detector_faults = @ + 1]
    /\ Goto(t, "fin_check")
    /\ UNCHANGED <<obj, active_streams, call, now, hist, detector_instance>>

\* The same step with the frame pipeline projected away.
ReadOkProjected(t) ==
    /\ thr[t].pc = "read"
    /\ obj[Sess(t)].cap = "open"
    /\ Goto(t, "inner_top")
    /\ UNCHANGED <<obj, det, active_streams, call, now, hist, detector_instance>>

\* An exception raised in the body of the inner loop before the frame is
\* counted (self.cap.read() raising) leaves it for the handler of line 179
\* and the finally.
LoopException(t) ==
    /\ thr[t].pc = "read"
    /\ obj[Sess(t)].cap = "open"
    /\ Goto(t, "fin_check")
    /\ UNCHANGED <<obj, det, active_streams, call, now, hist, detector_instance>>

\* The detector part of one iteration, statement by statement, the rest of
\* the frame pipeline projected away. A thread at "detect" is inside
\* self.detector.detect_severe(frame).
\* lines 130-141: the frame is read; with use_yolo the stream needs its detector.
ReadFrame(t) ==
    /\ thr[t].pc = "read"
    /\ obj[Sess(t)].cap = "open"
    /\ Goto(t, IF ~obj[Sess(t)].use_yolo THEN "inner_top"
               ELSE IF det[Sess(t)].detector = 0 THEN "get_detector"
               ELSE "detect")
    /\ UNCHANGED <<obj, det, active_streams, call, now, hist, detector_instance>>

\* line 20: if _detector_instance is None (no lock is held).
GetDetectorTest(t) ==
    /\ thr[t].pc = "get_detector"
    /\ Goto(t, IF detector_instance = 0 THEN "construct" ELSE "get_return")
    /\ UNCHANGED <<obj, det, active_streams, call, now, hist, detector_instance>>

\* lines 21-22: _detector_instance = SevereAccidentDetector()
GetDetectorConstruct(t) ==
    /\ thr[t].pc = "construct"
    /\ detector_instance' = detector_instance + 1
    /\ Goto(t, "get_return")
    /\ UNCHANGED <<obj, det, active_streams, call, now, hist>>

\* line 22 raising: the exception leaves the inner loop (lines 179-184).
GetDetectorRaises(t) ==
    /\ thr[t].pc = "construct"
    /\ Goto(t, "fin_check")
    /\ UNCHANGED <<obj, det, active_streams, call, now, hist, detector_instance>>

\* lines 23 and 142: self.detector = the module's instance as it is now.
GetDetectorReturn(t) ==
    /\ thr[t].pc = "get_return"
    /\ det' = [det EXCEPT ![Sess(t)].detector = detector_instance]
    /\ Goto(t, "detect")
    /\ UNCHANGED <<obj, active_streams, call, now, hist, detector_instance>>

\* lines 143-177: detect_severe returns and the iteration ends.
DetectSevereReturn(t) ==
    /\ thr[t].pc = "detect"
    /\ Goto(t, "inner_top")
    /\ UNCHANGED <<obj, det, active_streams, call, now, hist, detector_instance>>

DetectorSteps(t) ==
    \/ ReadFrame(t) \/ GetDetectorTest(t) \/ GetDetectorConstruct(t)
    \/ GetDetectorRaises(t) \/ GetDetectorReturn(t) \/ DetectSevereReturn(t)

\* line 185: if self.cap
FinCheck(t) ==
    /\ thr[t].pc = "fin_check"
    /\ Goto(t, IF obj[Sess(t)].cap # "None" THEN "fin_release" ELSE "loop_top")
    /\ UNCHANGED <<obj, det, active_streams, call, now, hist, detector_instance>>

\* lines 186-191: self.cap.release(); self.cap = None. When stop() has set
\* self.cap to None since line 185, the AttributeError leaves the loop.
FinRelease(t) ==
    /\ thr[t].pc = "fin_release"
    /\ IF obj[Sess(t)].cap = "None"
       THEN thr' = [thr EXCEPT ![t].pc = "done", ![t].reconnect_attempts = 0]
            /\ UNCHANGED obj
       ELSE Goto(t, "loop_top") /\ obj' = [obj EXCEPT ![Sess(t)].cap = "None"]
    /\ UNCHANGED <<det, active_streams, call, now, hist, detector_instance>>

ThreadControl(t) ==
    \/ LoopTop(t) \/ Connect(t) \/ Opened(t) \/ InnerTop(t)
    \/ ReadFail(t) \/ FinCheck(t) \/ FinRelease(t)

\* ------------------------------------------------------ CameraStream.start / stop
\* (mutant) start() does not test the flag.
StartNeverRefused(o) == FALSE

\* line 84: if self.is_running
StartRefused(o) == o.is_running

\* start(), lines 83-91: refuse a running stream, else set the flag and spawn
\* the capture thread. The result is "False" or "True".
StartResult(s) == IF StartRefused(obj[s]) THEN "False" ELSE "True"
Spawn(s) ==
    IF StartRefused(obj[s])
    THEN UNCHANGED <<obj, thr>>
    ELSE /\ obj' = [obj EXCEPT ![s].is_running = TRUE]
         /\ thr' = [thr EXCEPT ![FreeThread] =
                       [sess |-> s, pc |-> "loop_top", reconnect_attempts |-> 0]]

\* What follows stream.stop(): it returns None to a direct caller, and
\* stop_camera goes on to line 412.
AfterStop(c) ==
    IF call[c].op = "stop"
    THEN call' = [call EXCEPT ![c].pc = "ret", ![c].ret = "None"]
    ELSE call' = [call EXCEPT ![c].pc = "stop_del"]

\* An exception leaves the call (the Flask routes catch it).
Raise(c) == call' = [call EXCEPT ![c].pc = "ret", ![c].ret = "raised"]

\* line 94: self.is_running = False
SetStopFlag(s) == obj' = [obj EXCEPT ![s].is_running = FALSE]

\* line 95: if self.cap
StopCap(c) ==
    /\ call[c].pc = "stop_cap"
    /\ IF obj[call[c].stream].cap # "None"
       THEN call' = [call EXCEPT ![c].pc = "stop_release"]
       ELSE AfterStop(c)
    /\ UNCHANGED <<obj, det, thr, active_streams, now, hist, detector_instance>>

\* lines 96-97: self.cap.release(); self.cap = None. When the capture
\* thread's finally has set self.cap to None since line 95, the call raises
\* AttributeError.
StopRelease(c) ==
    /\ call[c].pc = "stop_release"
    /\ IF obj[call[c].stream].cap = "None"
       THEN Raise(c) /\ UNCHANGED obj
       ELSE AfterStop(c) /\ obj' = [obj EXCEPT ![call[c].stream].cap = "None"]
    /\ UNCHANGED <<det, thr, active_streams, now, hist, detector_instance>>

\* A direct call of start() on stream s.
DirectStart(c, s) ==
    /\ call[c].pc = "idle"
    /\ obj[s].camera_id # 0
    /\ StartRefused(obj[s]) \/ Cardinality({t \in Threads : thr[t].sess = s}) < MaxStarts
    /\ Spawn(s)
    /\ call' = [call EXCEPT ![c] = [IdleCall EXCEPT !.pc = "ret", !.op = "start",
                                       !.stream = s, !.ret = StartResult(s)]]
    /\ UNCHANGED <<det, active_streams, now, hist, detector_instance>>

\* A direct call of stop() on stream s, up to line 94.
DirectStop(c, s) ==
    /\ call[c].pc = "idle"
    /\ obj[s].camera_id # 0
    /\ SetStopFlag(s)
    /\ call' = [call EXCEPT ![c] = [IdleCall EXCEPT !.pc = "stop_cap", !.op = "stop",
                                       !.stream = s,
                                       !.was_running = obj[s].is_running]]
    /\ UNCHANGED <<det, thr, active_streams, now, hist, detector_instance>>

\* ------------------------------------------------------ CameraManager
\* (mutant) the registry is not consulted.
NeverRegistered(id) == FALSE

\* lines 386, 406: camera_id in self.active_streams
Registered(id) == active_streams[id] # 0

\* start_camera, line 386.
StartCheck(c, id) ==
    /\ call[c].pc = "idle"
    /\ call' = [call EXCEPT ![c] =
          IF Registered(id)
          THEN [IdleCall EXCEPT !.pc = "ret", !.op = "start_camera", !.id = id,
                                !.ret = "False", !.log = "already active"]
          ELSE [IdleCall EXCEPT !.pc = "start_db", !.op = "start_camera", !.id = id]]
    /\ UNCHANGED <<obj, det, thr, active_streams, now, hist, detector_instance>>

\* (mutant) the stream is constructed before the database is asked.
StartNotFoundLeavesStream(c) ==
    /\ call[c].pc = "start_db"
    /\ call' = [call EXCEPT ![c].pc = "ret", ![c].ret = "False",
                            ![c].log = "not found"]
    /\ obj' = IF FreeSession # 0
              THEN [obj EXCEPT ![FreeSession] = NewStream(call[c].id, manager_use_yolo)]
              ELSE obj
    /\ UNCHANGED <<det, thr, active_streams, now, hist, detector_instance>>

\* start_camera, lines 390-393: the camera is not in the database.
StartNotFound(c) ==
    /\ call[c].pc = "start_db"
    /\ call' = [call EXCEPT ![c].pc = "ret", ![c].ret = "False",
                            ![c].log = "not found"]
    /\ UNCHANGED <<obj, det, thr, active_streams, now, hist, detector_instance>>

\* start_camera, lines 390-399: the camera is found, a stream is constructed
\* and started, and registered under its id. (The new object is private to
\* the caller until line 397, so these lines are one step.)
StartNew(c) ==
    /\ call[c].pc = "start_db"
    /\ FreeSession # 0
    /\ LET s == FreeSession
           id == call[c].id
       IN  /\ obj' = [obj EXCEPT ![s] =
                         [NewStream(id, manager_use_yolo) EXCEPT !.is_running = TRUE]]
           /\ thr' = [thr EXCEPT ![FreeThread] =
                         [sess |-> s, pc |-> "loop_top", reconnect_attempts |-> 0]]
           /\ active_streams' = [active_streams EXCEPT ![id] = s]
           /\ call' = [call EXCEPT ![c].pc = "ret", ![c].stream = s,
                                   ![c].ret = "True", ![c].log = "started"]
    /\ UNCHANGED <<det, now, hist, detector_instance>>

\* (mutant) stop_camera does not test that the id is registered.
StopCameraEntryUnchecked(c, id, op, todo) ==
    call' = [call EXCEPT ![c] =
        [IdleCall EXCEPT !.pc = "stop_get", !.op = op, !.id = id, !.todo = todo]]

\* stop_camera, line 406, when called for id (directly, or by stop_all).
StopCameraEntry(c, id, op, todo) ==
    call' = [call EXCEPT ![c] =
        IF Registered(id)
        THEN [IdleCall EXCEPT !.pc = "stop_get", !.op = op, !.id = id, !.todo = todo]
        ELSE IF op = "stop_all"
             THEN [IdleCall EXCEPT !.pc = "all_next", !.op = op, !.todo = todo]
             ELSE [IdleCall EXCEPT !.pc = "ret", !.op = op, !.id = id, !.ret = "False"]]

StopCheck(c, id) ==
    /\ call[c].pc = "idle"
    /\ StopCameraEntry(c, id, "stop_camera", {})
    /\ UNCHANGED <<obj, det, thr, active_streams, now, hist, detector_instance>>

\* stop_camera, line 410 and stop() up to line 94: the stream is looked up
\* (a KeyError when another call removed it since line 406) and its flag
\* cleared.
StopGet(c) ==
    /\ call[c].pc = "stop_get"
    /\ IF Registered(call[c].id)
       THEN /\ SetStopFlag(active_streams[call[c].id])
            /\ call' = [call EXCEPT ![c].pc = "stop_cap",
                                    ![c].stream = active_streams[call[c].id]]
       ELSE Raise(c) /\ UNCHANGED obj
    /\ UNCHANGED <<det, thr, active_streams, now, hist, detector_instance>>

\* stop_camera, lines 412-414: del self.active_streams[camera_id] (a KeyError
\* when another call removed it meanwhile); stop_all goes on with its loop.
StopDel(c) ==
    /\ call[c].pc = "stop_del"
    /\ IF Registered(call[c].id)
       THEN /\ active_streams' = [active_streams EXCEPT ![call[c].id] = 0]
            /\ IF call[c].op = "stop_all"
               THEN call' = [call EXCEPT ![c].pc = "all_next"]
               ELSE call' = [call EXCEPT ![c].pc = "ret", ![c].ret = "True"]
       ELSE Raise(c) /\ UNCHANGED active_streams
    /\ UNCHANGED <<obj, det, thr, now, hist, detector_instance>>

\* stop_all, line 419: list(self.active_streams.keys())
StopAllBegin(c) ==
    /\ call[c].pc = "idle"
    /\ call' = [call EXCEPT ![c] =
          [IdleCall EXCEPT !.pc = "all_next", !.op = "stop_all",
                           !.todo = {id \in CameraIds : Registered(id)}]]
    /\ UNCHANGED <<obj, det, thr, active_streams, now, hist, detector_instance>>

\* stop_all, lines 419-421: the next id of the list, or the end of the loop.
StopAllNext(c) ==
    /\ call[c].pc = "all_next"
    /\ IF call[c].todo = {}
       THEN call' = [call EXCEPT ![c].pc = "ret", ![c].ret = "None"]
       ELSE LET id == CHOOSE i \in call[c].todo : \A j \in call[c].todo : i <= j
            IN  StopCameraEntry(c, id, "stop_all", call[c].todo \ {id})
    /\ UNCHANGED <<obj, det, thr, active_streams, now, hist, detector_instance>>

\* The call has returned; the request thread is free for the next one.
Return(c) ==
    /\ call[c].pc = "ret"
    /\ call' = [call EXCEPT ![c] = IdleCall]
    /\ UNCHANGED <<obj, det, thr, active_streams, now, hist, detector_instance>>

\* time.time() advances.
Tick ==
    /\ now < StartTime + MaxTime
    /\ now' = now + 1
    /\ UNCHANGED <<obj, det, thr, active_streams, call, hist, detector_instance>>

\* ------------------------------------------------------ specifications
Init ==
    /\ obj = [s \in Sessions |-> NoStream]
    /\ det = [s \in Sessions |-> NewDetail]
    /\ thr = [t \in Threads |-> NoThread]
    /\ active_streams = [id \in CameraIds |-> 0]
    /\ call = [c \in Callers |-> IdleCall]
    /\ now = StartTime
    /\ hist = <<>>
    /\ detector_instance = 0

ManagerCall(c) ==
    \/ \E id \in CameraIds : StartCheck(c, id)
    \/ StartNotFound(c)
    \/ StartNew(c)
    \/ \E id \in CameraIds : StopCheck(c, id)
    \/ StopGet(c)
    \/ StopCap(c)
    \/ StopRelease(c)
    \/ StopDel(c)
    \/ StopAllBegin(c)
    \/ StopAllNext(c)

CaptureProjected ==
    \E t \in Threads : ThreadControl(t) \/ ReadOkProjected(t) \/ LoopException(t)

Next ==
    \/ \E c \in Callers : ManagerCall(c) \/ Return(c)
    \/ CaptureProjected

Spec == Init /\ [][Next]_vars

\* What the history keeps of a call that returned: what was called, and for
\* start_camera its result, the stream it constructed and the line it logged.
Returned(k) ==
    IF k.op = "start_camera"
    THEN [op |-> k.op, id |-> k.id, ret |-> k.ret, stream |-> k.stream, log |-> k.log]
    ELSE [op |-> k.op, id |-> k.id, ret |-> "none", stream |-> 0, log |-> "none"]

\* The call has returned, and joins the history.
ReturnRemembered(c) ==
    /\ call[c].pc = "ret"
    /\ call' = [call EXCEPT ![c] = IdleCall]
    /\ hist' = IF Len(hist) < 2 THEN Append(hist, Returned(call[c]))
                                ELSE <<hist[2], Returned(call[c])>>
    /\ UNCHANGED <<obj, det, thr, active_streams, now, detector_instance>>

\* One registry call at a time: every call is made by the same request
\* thread (which thread makes a call changes nothing once calls do not
\* overlap).
Serial == 1

NextSerial ==
    \/ ManagerCall(Serial)
    \/ ReturnRemembered(Serial)
    \/ CaptureProjected

SpecSerial == Init /\ [][NextSerial]_vars

\* One CameraStream, constructed and not started, and one thread calling its
\* start() and stop() in any order, with the frame pipeline projected away.
TheStream == 1
Driver == 1

InitStream ==
    /\ obj = [s \in Sessions |->
                 IF s = TheStream THEN NewStream(1, manager_use_yolo) ELSE NoStream]
    /\ det = [s \in Sessions |-> NewDetail]
    /\ thr = [t \in Threads |-> NoThread]
    /\ active_streams = [id \in CameraIds |-> 0]
    /\ call = [c \in Callers |-> IdleCall]
    /\ now = StartTime
    /\ hist = <<>>
    /\ detector_instance = 0

DriverCall ==
    \/ DirectStart(Driver, TheStream)
    \/ DirectStop(Driver, TheStream)
    \/ StopCap(Driver)
    \/ StopRelease(Driver)
    \/ Return(Driver)

NextStream ==
    \/ DriverCall
    \/ CaptureProjected

SpecStream == InitStream /\ [][NextStream]_vars

\* The same stream with its capture threads scheduled fairly: a daemon
\* thread that can take a step takes one (the sleeps of the loop are finite).
SpecStreamFair ==
    SpecStream /\ \A t \in Threads :
        WF_vars(ThreadControl(t) \/ ReadOkProjected(t) \/ LoopException(t))

\* One CameraStream started once, as the CameraManager uses it, and stopped
\* at any moment: the whole frame pipeline, and the clock.
NeverStarted == \A t \in Threads : thr[t].sess # TheStream

StartOnce == NeverStarted /\ DirectStart(Driver, TheStream)

NextPipeline ==
    \/ StartOnce
    \/ DirectStop(Driver, TheStream)
    \/ StopCap(Driver)
    \/ StopRelease(Driver)
    \/ Return(Driver)
    \/ \E t \in Threads : ThreadControl(t) \/ ReadOk(t) \/ ReadDetectorFault(t)
    \/ Tick

SpecPipeline == InitStream /\ [][NextPipeline]_vars

\* Two cameras started by the CameraManager, each with its CameraStream and
\* capture thread, running side by side with the whole frame pipeline; no
\* call is made on them and the clock stands still.
PairSessions == {1, 2}

InitPair ==
    /\ obj = [s \in Sessions |->
                 IF s \in PairSessions
                 THEN [NewStream(s, manager_use_yolo) EXCEPT !.is_running = TRUE]
                 ELSE NoStream]
    /\ det = [s \in Sessions |-> NewDetail]
    /\ thr = [t \in Threads |->
                 IF t \in PairSessions
                 THEN [sess |-> t, pc |-> "loop_top", reconnect_attempts |-> 0]
                 ELSE NoThread]
    /\ active_streams = [id \in PairSessions |-> id]
    /\ call = [c \in Callers |-> IdleCall]
    /\ now = StartTime
    /\ hist = <<>>
    /\ detector_instance = 0

\* The steps that count a frame, for a stream that has frames left to read.
PairRead(t) ==
    /\ thr[t].pc = "read"
    /\ det[Sess(t)].frame_count < MaxPairFrames
    /\ ReadOk(t)
PairDetectorFault(t) ==
    /\ thr[t].pc = "read"
    /\ det[Sess(t)].frame_count < MaxPairFrames
    /\ ReadDetectorFault(t)

NextPair ==
    \E t \in Threads : ThreadControl(t) \/ PairRead(t) \/ PairDetectorFault(t)

SpecPair == InitPair /\ [][NextPair]_vars

\* One CameraStream started once and never stopped, the clock standing
\* still: the whole frame pipeline, with reads that raise, so that the
\* stream reconnects at any point of its pipeline.
NextRecording ==
    \/ StartOnce
    \/ Return(Driver)
    \/ \E t \in Threads : \/ ThreadControl(t) \/ ReadOk(t)
                          \/ ReadDetectorFault(t) \/ LoopException(t)

SpecRecording == InitStream /\ [][NextRecording]_vars

\* The stream of SpecPipeline with its capture thread scheduled fairly and a
\* source that, read again and again, delivers a frame in the end.
SpecPipelineFair ==
    SpecPipeline /\ \A t \in Threads :
        /\ WF_vars(ThreadControl(t))
        /\ SF_vars(ReadOk(t))

\* The same stream with its capture thread scheduled fairly: a daemon thread
\* that can take a step takes one (the sleeps of the loop are finite).
RecordingStep(t) ==
    \/ ThreadControl(t) \/ ReadOk(t) \/ ReadDetectorFault(t) \/ LoopException(t)

SpecRecordingFair ==
    SpecRecording /\ \A t \in Threads : WF_vars(RecordingStep(t))

\* One CameraStream started once and never stopped, the clock standing
\* still, with the states inside _verify_detection that another thread can
\* observe.
NextStats ==
    \/ StartOnce
    \/ Return(Driver)
    \/ \E t \in Threads : \/ ThreadControl(t) \/ ReadOk(t) \/ ReadDetectorFault(t)
                          \/ VerifyBegin(t) \/ VerifyEnd(t)

SpecStats == InitStream /\ [][NextStats]_vars

\* One CameraStream started once and never stopped, with the whole frame
\* pipeline, the publishing of frames and its failures, and the clock.
NextPublish ==
    \/ StartOnce
    \/ Return(Driver)
    \/ \E t \in Threads : ThreadControl(t) \/ ReadOkPublish(t) \/ ReadDetectorFault(t)
    \/ Tick

SpecPublish == InitStream /\ [][NextPublish]_vars

\* The same for a CameraStream constructed with use_yolo=False.
InitPlain ==
    /\ obj = [s \in Sessions |->
                 IF s = TheStream THEN NewStream(1, FALSE) ELSE NoStream]
    /\ det = [s \in Sessions |-> NewDetail]
    /\ thr = [t \in Threads |-> NoThread]
    /\ active_streams = [id \in CameraIds |-> 0]
    /\ call = [c \in Callers |-> IdleCall]
    /\ now = StartTime
    /\ hist = <<>>
    /\ detector_instance = 0

NextPlain ==
    \/ StartOnce
    \/ Return(Driver)
    \/ \E t \in Threads : ThreadControl(t) \/ ReadOkPublish(t)
    \/ Tick

SpecPlain == InitPlain /\ [][NextPlain]_vars

\* The same two cameras with the detector part of each iteration taken
\* statement by statement and the rest of the frame pipeline projected away.
NextDetector == \E t \in Threads : ThreadControl(t) \/ DetectorSteps(t)

SpecDetector == InitPair /\ [][NextDetector]_vars

\* ------------------------------------------------------ properties
K == RequiredConsecutive
W == CooldownSeconds
Positives(n) == [i \in 1..n |-> TRUE]
\* K-1 positive signals, one negative, K positive.
RunMissRun == Positives(K - 1) \o <<FALSE>> \o Positives(K)
IsPrefix(a, b) == Len(a) <= Len(b) /\ SubSeq(b, 1, Len(a)) = a
\* Which signals of the stream confirmed (a frame counted while get_detector
\* raised has no signal, so the n-th signal need not be the n-th frame).
ConfirmedSignals(s) ==
    [i \in 1..Len(det[s].confirmations) |-> det[s].confirmations[i].signal]

\* C1: any two confirmations of one stream are at least the cooldown apart.
C1_ConfirmationsCooldownApart ==
    \A s \in Sessions :
        \A i, j \in 1..Len(det[s].confirmations) :
            i < j => det[s].confirmations[j].time - det[s].confirmations[i].time >= W

\* A stream has confirmed twice.
C1_Witness == Len(det[TheStream].confirmations) >= 2

\* C2: on a fresh stream, K positive signals give exactly one confirmation
\* (at signal K); K-1 positives, a negative and K positives give exactly
\* one, at signal 2K, and none before it.
C2_RunOfKConfirmsOnce ==
    LET sig == det[TheStream].signals
    IN  /\ sig = Positives(K) => ConfirmedSignals(TheStream) = <<K>>
        /\ (IsPrefix(sig, RunMissRun) /\ Len(sig) < 2 * K)
               => ConfirmedSignals(TheStream) = <<>>
        /\ sig = RunMissRun => ConfirmedSignals(TheStream) = <<2 * K>>

\* The miss and the second run have happened, and the confirmation with them.
C2_Witness ==
    /\ det[TheStream].signals = RunMissRun
    /\ det[TheStream].confirmed_accidents = 1

\* C3: 2K positive signals on a fresh stream, all within less than the
\* cooldown, give exactly one confirmation.
C3_TwoRunsInCooldownConfirmOnce ==
    (/\ det[TheStream].signals = Positives(2 * K)
     /\ now - det[TheStream].first_frame_time < W)
        => /\ Len(det[TheStream].confirmations) = 1
           /\ det[TheStream].confirmed_accidents = 1

\* 2K positives within the cooldown, the second run complete and unconfirmed.
C3_Witness ==
    /\ det[TheStream].signals = Positives(2 * K)
    /\ now - det[TheStream].first_frame_time < W
    /\ det[TheStream].consecutive_detections = K

\* C4 (as claimed): at most one capture loop is live for a camera id.
C4_AtMostOneLiveLoop ==
    \A id \in CameraIds : Cardinality(LiveLoops(id)) <= 1

\* C5: start_camera(id) twice in succession: when the first call found the id
\* inactive and in the database it returned True; the second then returns
\* False and constructs no stream, and once no call is in progress the id is
\* active and names the first call's stream.
C5_SecondStartRefused ==
    /\ \A i \in 1..Len(hist) :
          hist[i].op = "start_camera" =>
              /\ hist[i].ret = "False" <=> hist[i].log \in {"already active", "not found"}
              /\ hist[i].ret = "True" <=> hist[i].stream # 0
    /\ (/\ Len(hist) = 2
        /\ hist[1].op = "start_camera" /\ hist[2].op = "start_camera"
        /\ hist[1].id = hist[2].id
        /\ hist[1].ret = "True")
           => /\ hist[2].ret = "False"
              /\ hist[2].stream = 0
              /\ hist[2].log = "already active"
              /\ (\A c \in Callers : call[c].pc = "idle")
                    => /\ active_streams[hist[1].id] = hist[1].stream
                       /\ {s \in Sessions : obj[s].camera_id = hist[1].id
                                             /\ obj[s].is_running}
                              = {hist[1].stream}

\* Two start_camera calls for one id have returned in succession, the first
\* with True.
C5_Witness ==
    /\ Len(hist) = 2
    /\ hist[1].op = "start_camera" /\ hist[2].op = "start_camera"
    /\ hist[1].id = hist[2].id
    /\ hist[1].ret = "True" /\ hist[2].ret = "False"

\* C6 (as claimed): of two overlapping start_camera calls for one id at most
\* one returns True. (With two request threads, both can hold a True result
\* for the same id only when their calls overlapped.)
C6_OneConcurrentStartSucceeds ==
    \A c1, c2 \in Callers :
        (/\ c1 # c2
         /\ call[c1].pc = "ret" /\ call[c2].pc = "ret"
         /\ call[c1].op = "start_camera" /\ call[c2].op = "start_camera"
         /\ call[c1].id = call[c2].id)
            => ~(call[c1].ret = "True" /\ call[c2].ret = "True")

\* C7: stop_camera for an id that is not registered returns False, raises
\* nothing and changes neither the registry nor any stream or thread.
C7_StopInactiveIsNoOp ==
    [][\A c \in Callers :
          (/\ call[c].pc = "idle"
           /\ call'[c].op = "stop_camera"
           /\ active_streams[call'[c].id] = 0)
              => /\ call'[c].pc = "ret"
                 /\ call'[c].ret = "False"
                 /\ UNCHANGED <<obj, det, thr, active_streams>>]_vars

\* stop_camera has returned False.
C7_Witness ==
    \E c \in Callers :
        call[c].pc = "ret" /\ call[c].op = "stop_camera" /\ call[c].ret = "False"

\* C8 (as claimed): when stop() has returned (stop_camera is at line 412 or
\* has returned True), no capture loop of that stream is live and its
\* connection is released.
StopHasReturned(c) ==
    \/ call[c].pc = "stop_del"
    \/ call[c].pc = "ret" /\ call[c].op = "stop_camera" /\ call[c].ret = "True"
    \/ call[c].pc = "ret" /\ call[c].op = "stop" /\ call[c].ret = "None"
C8_StopAwaitsLoopExit ==
    \A c \in Callers :
        StopHasReturned(c) =>
            /\ \A t \in Threads : thr[t].sess = call[c].stream => ~Live(t)
            /\ obj[call[c].stream].cap = "None"

\* C9 (as claimed): no step of a stop() entered on a stream that is not
\* running changes the stream or raises.
C9_StopOfStoppedIsNoOp ==
    [][\A c \in Callers :
          (/\ call'[c] # call[c]
           /\ call'[c].op = "stop"
           /\ ~call'[c].was_running)
              => obj' = obj /\ call'[c].ret # "raised"]_vars

\* C10: start() on a running stream returns False and spawns nothing; on a
\* stream that is not running it sets the flag, spawns exactly one capture
\* thread (at the top of its loop, the connection untouched) and returns True.
ThreadsOf(th, s) == {t \in Threads : th[t].sess = s}
C10_StartOnceOnly ==
    [][\A c \in Callers :
          (call[c].pc = "idle" /\ call'[c].op = "start") =>
              LET s == call'[c].stream
              IN  /\ call'[c].pc = "ret"
                  /\ IF obj[s].is_running
                     THEN /\ call'[c].ret = "False"
                          /\ UNCHANGED <<obj, thr>>
                     ELSE /\ call'[c].ret = "True"
                          /\ obj' = [obj EXCEPT ![s].is_running = TRUE]
                          /\ \E t \in Threads \ ThreadsOf(thr, s) :
                                /\ ThreadsOf(thr', s) = ThreadsOf(thr, s) \cup {t}
                                /\ thr'[t].pc = "loop_top"
                                /\ \A u \in Threads \ {t} : thr'[u] = thr[u]]_vars

\* start() has refused a stream that is running.
C10_Witness ==
    /\ call[Driver].pc = "ret" /\ call[Driver].op = "start"
    /\ call[Driver].ret = "False"
    /\ obj[TheStream].is_running

\* C11 (as claimed): when stop_all() has returned, called right after a
\* start_camera that returned True, the registry is empty and no capture
\* loop of the stream that was active is live.
C11_StopAllTerminatesSessions ==
    (/\ call[Serial].pc = "ret"
     /\ call[Serial].op = "stop_all"
     /\ call[Serial].ret = "None"
     /\ Len(hist) >= 1
     /\ hist[Len(hist)].op = "start_camera"
     /\ hist[Len(hist)].ret = "True")
        => /\ \A id \in CameraIds : active_streams[id] = 0
           /\ \A t \in Threads : thr[t].sess = hist[Len(hist)].stream => ~Live(t)

\* C12: after N insertions the frame buffer holds min(N, capacity) frames,
\* the last ones inserted, in insertion order.
Min(a, b) == IF a <= b THEN a ELSE b
LastOf(seq, n) == SubSeq(seq, Len(seq) - n + 1, Len(seq))
C12_BufferHoldsLastFrames ==
    \A s \in Sessions :
        LET n == Min(Len(det[s].inserted), BufferCapacity)
        IN  /\ Len(det[s].frame_buffer) = n
            /\ det[s].frame_buffer = LastOf(det[s].inserted, n)

\* More frames were inserted than the buffer holds, one frame of the stream
\* having been counted and not inserted.
C12_Witness ==
    /\ Len(det[TheStream].inserted) > BufferCapacity
    /\ det[TheStream].frame_count > Len(det[TheStream].inserted)

\* C13 (as claimed): the frames of a clip are the buffer as it was at the
\* confirmation that started the recording, followed by the PostRollFrames
\* frames captured after the confirming frame.
C13_ClipIsPrerollThenPostroll ==
    \A s \in Sessions :
        \A i \in 1..Len(det[s].clips) :
            \A j \in 1..Len(det[s].confirmations) :
                det[s].confirmations[j].time = det[s].clips[i].start
                    => det[s].clips[i].frames
                          = det[s].confirmations[j].buffer
                              \o [k \in 1..PostRollFrames |->
                                     det[s].confirmations[j].frame + k]

\* C14 (as claimed): the count of failed opens never exceeds the maximum,
\* and a capture loop that has counted the maximum of failed opens is
\* leaving (it does not go back to open the connection again).
C14_StopsAtMaxAttempts ==
    \A t \in Threads :
        Live(t) =>
            /\ thr[t].reconnect_attempts <= max_reconnect_attempts
            /\ thr[t].reconnect_attempts >= max_reconnect_attempts
                   => thr[t].pc \notin {"connect", "opened", "inner_top", "read"}

\* C15: a capture that opens after failed attempts takes the loop to the
\* streaming loop, whatever the count of failed attempts was, and resets
\* that count to zero: a loop that is streaming has a count of zero.
C15_OpenResetsAttempts ==
    [][\A t \in Threads :
          /\ (/\ thr[t].pc = "opened"
               /\ thr'[t] # thr[t]
               /\ obj[thr[t].sess].cap = "open")
                  => /\ thr'[t].pc = "inner_top"
                     /\ thr'[t].reconnect_attempts = 0
          /\ thr'[t].pc \in {"inner_top", "read"}
                  => thr'[t].reconnect_attempts = 0]_vars

\* The connection has opened after failed attempts were counted, fewer
\* than the maximum.
C15_Witness ==
    \E t \in Threads :
        /\ thr[t].pc = "opened"
        /\ obj[thr[t].sess].cap = "open"
        /\ obj[thr[t].sess].is_running
        /\ thr[t].reconnect_attempts >= 1
        /\ thr[t].reconnect_attempts < max_reconnect_attempts

\* C16: a confirmation while a recording is in flight starts no second
\* recording: the recording's start time is unchanged, and its post-roll
\* counter and frames go on as for any frame (one frame more, one less to
\* record; the clip ends only when that counter has run out).
C16_OneRecordingInFlight ==
    [][\A s \in Sessions :
          (/\ det[s].is_recording
           /\ det'[s].confirmed_accidents = det[s].confirmed_accidents + 1)
              => /\ det'[s].recording_start_time = det[s].recording_start_time
                 /\ det'[s].frames_to_record_after = det[s].frames_to_record_after - 1
                 /\ IF det'[s].is_recording
                    THEN det'[s].recording_frames
                            = Append(det[s].recording_frames, det'[s].frame_count)
                    ELSE det'[s].frames_to_record_after <= 0]_vars

\* The stream confirmed a second time within the post-roll of the recording
\* its first confirmation started.
C16_Witness ==
    /\ Len(det[TheStream].confirmations) = 2
    /\ det[TheStream].confirmations[2].frame - det[TheStream].confirmations[1].frame
          < PostRollFrames
    /\ det[TheStream].recording_start_time = det[TheStream].confirmations[1].time

\* C17 (as claimed): a confirmation is emitted only on the frame whose
\* positive signal raised the consecutive count to K: the count before that
\* frame was K - 1.
C17_ConfirmsOnThresholdFrame ==
    [][\A s \in Sessions :
          det'[s].confirmed_accidents > det[s].confirmed_accidents
              => det[s].consecutive_detections = K - 1]_vars

\* C18 (as claimed): a frame whose detector invocation faults counts as a
\* negative signal: the consecutive count is 0 after it, and the capture
\* thread stays in its streaming loop, the connection open.
C18_DetectorFaultIsNegative ==
    [][\A t \in Threads :
          (/\ thr[t].sess # 0
           /\ thr'[t] # thr[t]
           /\ det'[thr[t].sess].detector_faults > det[thr[t].sess].detector_faults)
              => /\ det'[thr[t].sess].consecutive_detections = 0
                 /\ thr'[t].pc = "inner_top"
                 /\ obj'[thr[t].sess].cap = "open"]_vars

\* C19 (as claimed): when the save of a clip fails (the clip is not written,
\* or the accident does not reach the database) the recording is over, its
\* post-roll frames are discarded and the capture thread goes on streaming.
ClipFailed(d, e) ==
    /\ d.is_recording /\ ~e.is_recording
    /\ \/ e.clips = d.clips
       \/ Len(e.clips) = Len(d.clips) + 1 /\ ~e.clips[Len(e.clips)].persisted
C19_FailedSaveDiscardsClip ==
    [][\A t \in Threads :
          (/\ thr[t].sess # 0
           /\ ClipFailed(det[thr[t].sess], det'[thr[t].sess]))
              => /\ det'[thr[t].sess].recording_frames = <<>>
                 /\ thr'[t].pc = "inner_top"
                 /\ obj'[thr[t].sess].cap = obj[thr[t].sess].cap]_vars

\* C20: a step of one session's capture thread, a failing one included,
\* leaves the registry and every other session (its stream object, its
\* counters, buffer, confirmation and recording state, and its thread) as
\* they were.
C20_SessionsAreIsolated ==
    [][\A t \in Threads :
          (thr[t].sess # 0 /\ thr'[t] # thr[t])
              => /\ active_streams' = active_streams
                 /\ \A s \in Sessions \ {thr[t].sess} :
                       /\ obj'[s] = obj[s]
                       /\ det'[s] = det[s]
                       /\ \A u \in Threads : thr[u].sess = s => thr'[u] = thr[u]]_vars

\* Session 1 has had a detector fault and then lost a clip (its save was
\* aborted) while session 2 was in the middle of a recording.
C20_Witness ==
    /\ det[1].detector_faults = 1
    /\ det[1].confirmed_accidents = 1
    /\ ~det[1].is_recording /\ det[1].clips = <<>> /\ det[1].recording_frames # <<>>
    /\ det[2].is_recording /\ det[2].frames_to_record_after = 1
    /\ det[2].consecutive_detections = 1

\* A capture thread inside detect_severe.
InDetect(t) == thr[t].sess # 0 /\ thr[t].pc = "detect"

\* C21: no two sessions are inside a detection call on the same detector
\* instance at the same time.
C21_DetectorCallsSerialized ==
    \A t, u \in Threads :
        (InDetect(t) /\ InDetect(u) /\ Sess(t) # Sess(u))
            => det[Sess(t)].detector # det[Sess(u)].detector

\* C22: outside a registry call, every camera id the registry reports active
\* (is_camera_active, get_active_cameras) has a capture loop that has not
\* terminated.
C22_ActiveIdHasLiveLoop ==
    call[Serial].pc = "idle" =>
        \A id \in CameraIds : Registered(id) => LiveLoops(id) # {}

\* A step of stream s in which _verify_detection confirmed an accident.
Confirms(s) == Len(det'[s].confirmations) > Len(det[s].confirmations)
\* A step of stream s that processed a frame with the given signal.
Signalled(s, sig) == det'[s].signals = Append(det[s].signals, sig)

\* C23: every frame with a negative signal leaves consecutive_detections at
\* 0, whatever the cooldown and the recording state.
C23_NegativeResetsCount ==
    [][\A s \in Sessions :
          Signalled(s, FALSE) => det'[s].consecutive_detections = 0]_vars

\* A negative signal has reset a count that was running while the stream
\* was recording, inside the cooldown.
C23_Witness ==
    LET d == det[TheStream]
    IN  /\ Len(d.signals) >= 2
        /\ ~d.signals[Len(d.signals)] /\ d.signals[Len(d.signals) - 1]
        /\ d.is_recording
        /\ now - d.last_confirmed_time < W
        /\ d.consecutive_detections = 0

\* C24: a confirmation is emitted only in a step in which the count has
\* reached K and at least W has passed since last_confirmed_time; that step
\* leaves the count at 0, last_confirmed_time at the current time and
\* confirmed_accidents one higher; every other step leaves last_confirmed_time
\* and confirmed_accidents as they were.
C24_ConfirmationStep ==
    [][\A s \in Sessions :
          IF Confirms(s)
          THEN /\ det[s].consecutive_detections + 1 >= K
               /\ now - det[s].last_confirmed_time >= W
               /\ det'[s].consecutive_detections = 0
               /\ det'[s].last_confirmed_time = now
               /\ det'[s].confirmed_accidents = det[s].confirmed_accidents + 1
          ELSE /\ det'[s].last_confirmed_time = det[s].last_confirmed_time
               /\ det'[s].confirmed_accidents = det[s].confirmed_accidents]_vars

\* The stream has just confirmed for the second time.
C24_Witness ==
    LET d == det[TheStream]
    IN  /\ d.confirmed_accidents = 2
        /\ d.last_confirmed_time = now
        /\ d.confirmations[2].frame = d.frame_count

\* C25: inside the cooldown a positive signal adds one to the count and
\* emits a tentative notification, and neither confirms, nor starts a
\* recording, nor changes last_confirmed_time.
C25_PositiveInsideCooldown ==
    [][\A s \in Sessions :
          (Signalled(s, TRUE) /\ now - det[s].last_confirmed_time < W) =>
              /\ det'[s].consecutive_detections = det[s].consecutive_detections + 1
              /\ det'[s].tentative_emitted = det[s].tentative_emitted + 1
              /\ ~Confirms(s)
              /\ det'[s].confirmed_accidents = det[s].confirmed_accidents
              /\ det'[s].last_confirmed_time = det[s].last_confirmed_time
              /\ det'[s].is_recording => det[s].is_recording
              /\ det'[s].recording_start_time = det[s].recording_start_time]_vars

\* Inside the cooldown the count has grown past K.
C25_Witness ==
    LET d == det[TheStream]
    IN  /\ d.consecutive_detections > K
        /\ d.confirmed_accidents = 1
        /\ now - d.last_confirmed_time < W

\* C26: every confirmation starts a recording with a fresh post-roll quota
\* (of which the confirming frame is the first).
C26_ConfirmationStartsRecording ==
    [][\A s \in Sessions :
          Confirms(s) =>
              /\ det'[s].is_recording
              /\ det'[s].recording_start_time = now
              /\ det'[s].recording_frames = <<det'[s].frame_count>>
              /\ det'[s].frames_to_record_after = PostRollFrames - 1]_vars

\* C27: a recording, once started, takes in every frame read successfully
\* and nothing else, and is finalized by the frame that makes them P,
\* whatever the signals, the failed reads and the reconnects in between;
\* clips are written only by that finalization, one at most.
C27_RecordingTakesPostRoll ==
    [][\A s \in Sessions :
          LET d == det[s]
              e == det'[s]
              read == e.frame_count = d.frame_count + 1
          IN  /\ e.is_recording =>
                    /\ e.frames_to_record_after >= 1
                    /\ Len(e.recording_frames) + e.frames_to_record_after
                          = PostRollFrames
              /\ (d.is_recording /\ e.is_recording) =>
                    e.recording_frames =
                        IF read THEN Append(d.recording_frames, e.frame_count)
                        ELSE d.recording_frames
              /\ (d.is_recording /\ ~e.is_recording) =>
                    /\ read
                    /\ Len(d.recording_frames) = PostRollFrames - 1
                    /\ Len(e.clips) <= Len(d.clips) + 1
              /\ ~(d.is_recording /\ ~e.is_recording) => e.clips = d.clips]_vars

\* The stream is reconnecting in the middle of a recording that has taken a
\* frame with a negative signal, one frame short of its post-roll.
C27_Witness ==
    LET d == det[TheStream]
    IN  /\ d.is_recording
        /\ Len(d.recording_frames) = PostRollFrames - 1
        /\ ~d.signals[Len(d.signals)]
        /\ obj[TheStream].is_running
        /\ \E t \in Threads : Sess(t) = TheStream /\ thr[t].pc = "connect"

\* C28: a running stream whose reads fail from some point on (no further
\* frame is counted) closes its connection and goes through a full reconnect.
C28_FailingReadsForceReconnect ==
    \A n \in 0..MaxFrames :
        <>[](obj[TheStream].is_running /\ det[TheStream].frame_count = n)
            => []<>(\E t \in Threads : Sess(t) = TheStream /\ thr[t].pc = "connect")

\* C29: a capture loop whose stream has its flag cleared by stop() eventually
\* terminates, also when start() follows stop() on the same stream.
C29_StoppedLoopTerminates ==
    \A t \in Threads :
        (Live(t) /\ ~obj[thr[t].sess].is_running) ~> (thr[t].pc = "done")

\* C30: with the detector in use, a stream hands a frame to the detector
\* only on the sampling cadence (every FRAME_SKIP-th frame), while every
\* frame read is counted once and pushed into the ring buffer once.
C30_DetectsOnCadenceOnly ==
    \A s \in Sessions :
        /\ Len(det[s].signals) * FRAME_SKIP <= det[s].frame_count + FRAME_SKIP - 1
        /\ det[s].inserted = [i \in 1..det[s].frame_count |-> i]

\* A step of stream s that published a camera_frame event.
Published(s) == det'[s].frame_msg # det[s].frame_msg
\* A step of stream s that read a frame and took it through the pipeline.
Processed(s) == det'[s].inserted = Append(det[s].inserted, det[s].frame_count + 1)

\* C31: the 'is_recording' flag of every published camera_frame event is true
\* exactly when the stream has a recording in flight when it publishes.
C31_FlagTellsRecording ==
    [][\A s \in Sessions :
          Published(s) => (det'[s].frame_msg.is_recording <=> det'[s].is_recording)]_vars

\* C32: two consecutive camera_frame events of a stream are at least
\* emit_interval apart; a frame processed sooner after the last event is not
\* published, and is counted, buffered, given its signal and recorded all
\* the same.
C32_PublishIsTimeGated ==
    [][\A s \in Sessions :
          LET d == det[s]
              e == det'[s]
          IN  /\ Published(s) =>
                    /\ Processed(s)
                    /\ e.frame_msg.timestamp = now
                    /\ e.frame_msg.frame_count = e.frame_count
                    /\ d.frame_msg # NoFrameMsg =>
                          now - d.frame_msg.timestamp >= EmitInterval
              /\ (e.frame_count # d.frame_count /\ d.frame_msg # NoFrameMsg
                      /\ now - d.frame_msg.timestamp < EmitInterval) =>
                    /\ ~Published(s)
                    /\ Processed(s)
                    /\ e.frame_count = d.frame_count + 1
                    /\ obj[s].use_yolo => Len(e.signals) = Len(d.signals) + 1
                    /\ d.is_recording =>
                          \/ e.recording_frames = Append(d.recording_frames, e.frame_count)
                          \/ ~e.is_recording /\ d.frames_to_record_after = 1]_vars

\* A frame came in the same tick as the one published before it and was
\* processed without being published.
C32_Witness ==
    LET d == det[TheStream]
    IN  /\ d.frame_msg.timestamp = now
        /\ d.last_emit_time = now
        /\ d.frame_msg.frame_count < d.frame_count
        /\ d.inserted = [i \in 1..d.frame_count |-> i]
        /\ d.frame_count >= 2

\* C33: a socketio.emit that fails does not stop the capture loop and does
\* not change the confirmation state: the frame whose publish was due and
\* did not go through leaves the thread in the inner loop with the
\* connection open, and its positive signal is counted and confirms exactly
\* as the test of _verify_detection says.
C33_EmitFailureIsHarmless ==
    [][\A s \in Sessions :
          LET d == det[s]
              e == det'[s]
              c == d.consecutive_detections + 1
              due == c >= K /\ now - d.last_confirmed_time >= W
          IN  (Processed(s) /\ now - d.last_emit_time >= EmitInterval /\ ~Published(s)) =>
                  /\ \A t \in Threads :
                        (thr[t].sess = s /\ thr[t].pc # thr'[t].pc) =>
                            thr'[t].pc = "inner_top"
                  /\ obj' = obj
                  /\ Signalled(s, TRUE) =>
                        /\ e.total_detections = d.total_detections + 1
                        /\ e.tentative_emitted = d.tentative_emitted + 1
                        /\ Confirms(s) <=> due
                        /\ e.consecutive_detections = IF due THEN 0 ELSE c
                        /\ e.confirmed_accidents =
                              d.confirmed_accidents + (IF due THEN 1 ELSE 0)
                        /\ e.last_confirmed_time =
                              IF due THEN now ELSE d.last_confirmed_time
                  /\ Signalled(s, FALSE) =>
                        /\ e.consecutive_detections = 0
                        /\ e.confirmed_accidents = d.confirmed_accidents
                        /\ e.last_confirmed_time = d.last_confirmed_time]_vars

\* The frame that confirmed was due for publishing and its emits failed: the
\* last event published is that of the frame before, from an earlier tick.
C33_Witness ==
    LET d == det[TheStream]
    IN  /\ Len(d.confirmations) = 1
        /\ d.confirmations[1].frame = d.frame_count
        /\ d.confirmations[1].time = now
        /\ d.last_emit_time = now
        /\ d.frame_msg.frame_count = d.frame_count - 1
        /\ d.frame_msg.timestamp < now

\* C34: the connection handle of a stream whose capture loop is alive is
\* written by that loop only, never by a thread inside a stop() call.
C34_OnlyTheLoopWritesCap ==
    [][\A s \in Sessions :
          (obj'[s].cap # obj[s].cap /\ \E t \in Threads : Live(t) /\ thr[t].sess = s)
              => call' = call]_vars

\* C35: a read that fails while the stream is streaming (the thread goes
\* back to the test of the inner loop and no frame is counted) leaves the
\* connection open and the frame count, buffer, consecutive count, cooldown
\* stamp and recording state as they were.
C35_FailedReadChangesNothing ==
    [][\A t \in Threads :
          (/\ thr[t].pc = "read" /\ thr'[t].pc = "inner_top"
           /\ obj[thr[t].sess].cap = "open"
           /\ det'[thr[t].sess].frame_count = det[thr[t].sess].frame_count)
              => /\ det' = det
                 /\ obj' = obj
                 /\ thr'[t].reconnect_attempts = thr[t].reconnect_attempts]_vars

\* The stream is about to read, in the middle of a run of positive signals
\* and of a recording.
C35_Witness ==
    \E t \in Threads :
        /\ thr[t].pc = "read" /\ thr[t].sess = TheStream
        /\ obj[TheStream].cap = "open"
        /\ det[TheStream].consecutive_detections >= 1
        /\ det[TheStream].is_recording
        /\ Len(det[TheStream].frame_buffer) = BufferCapacity

\* C37: in every state a session reaches, confirmed_accidents * K <=
\* total_detections and consecutive_detections <= total_detections; and no
\* step lowers total_detections, confirmed_accidents or frame_count.
C37_StatisticsAreConsistent ==
    [][\A s \in Sessions :
          /\ det'[s].confirmed_accidents * K <= det'[s].total_detections
          /\ det'[s].consecutive_detections <= det'[s].total_detections
          /\ det'[s].total_detections >= det[s].total_detections
          /\ det'[s].confirmed_accidents >= det[s].confirmed_accidents
          /\ det'[s].frame_count >= det[s].frame_count]_vars

\* C36: a recording that has started (and has its post-roll frames to come)
\* eventually ends, also when the stream is stopped meanwhile.
C36_RecordingEventuallyEnds ==
    (/\ det[TheStream].is_recording
     /\ det[TheStream].frame_count + det[TheStream].frames_to_record_after <= MaxFrames)
        ~> ~det[TheStream].is_recording

\* A step in which start_camera returned for a camera the database does not have.
NotFoundReturns(c) == call[c].pc = "start_db" /\ call'[c].log = "not found"

\* C38: start_camera(id) for an id the database cannot resolve returns
\* False, constructs no stream, starts no thread and leaves the registry as
\* it was.
C38_UnknownCameraStartsNothing ==
    [][\A c \in Callers :
          NotFoundReturns(c) =>
              /\ call'[c].ret = "False"
              /\ obj' = obj /\ det' = det /\ thr' = thr
              /\ active_streams' = active_streams]_vars

\* start_camera has returned False for a camera that is not in the database,
\* and nothing is registered.
C38_Witness ==
    \E c \in Callers :
        /\ call[c].pc = "ret" /\ call[c].op = "start_camera"
        /\ call[c].log = "not found" /\ call[c].ret = "False"
        /\ \A id \in CameraIds : ~Registered(id)
        /\ \A t \in Threads : thr[t].sess = 0

\* C40: get_detector constructs at most one SevereAccidentDetector, and every
\* stream that has a detector has that one.
C40_DetectorConstructedOnce ==
    /\ detector_instance <= 1
    /\ \A s \in Sessions : det[s].detector <= 1

====
